---------------------------- MODULE Spec2Model ----------------------------
(***************************************************************************)
(* SIADA+ Evolucion: the instructor/group assignment engine of app.py.     *)
(*                                                                         *)
(* One run of the main button handler (or of a direct call of              *)
(* generar_horario_optimo): the calendar gate, the CP-SAT model that       *)
(* generar_horario_optimo builds, the solver call, the materialization of  *)
(* the rows and the caller's read of the diagnostics.                      *)
(*                                                                         *)
(* Dates are day ordinals; ordinal 0 is a Monday, so that                  *)
(* date.weekday() = ordinal % 7.  A boolean variable family of the CP-SAT  *)
(* model is represented by its support: asignacion is the set of triples   *)
(* <<i, d, g>> whose variable is 1, trabajo the set of pairs <<i, d>>      *)
(* whose trabajo_dia indicator is 1.                                       *)
(***************************************************************************)
EXTENDS Integers, Sequences, FiniteSets, TLC

(***************************************************************************)
(* Bounds of the explored inputs.                                          *)
(***************************************************************************)
MaxGrupos == 2
MaxDias == 8

\* the numbers of instructors explored
InstructoresOpciones == {0, 1, 2}
\* the start dates explored: a Monday, a Thursday and a Saturday
FechasInicio == {0, 3, 5}
\* the holiday sets explored: none, the first Monday, the second Monday
FestivosOpciones == {{}, {0}, {7}}
\* the values explored of max_horas_semana, horas_por_asignacion, max_dias_semana
HorasSemanaOpciones == {1, 4}
HorasSesionOpciones == {0, 1, 2}
DiasSemanaOpciones == {1, 4}

(***************************************************************************)
(* Program constants.                                                      *)
(***************************************************************************)
DiasPorSemana == 7
PrimerDiaFinDeSemana == 5

\* cp_model status codes (CpSolverStatus), the keys of status_names
UNKNOWN == 0
MODEL_INVALID == 1
FEASIBLE == 2
INFEASIBLE == 3
OPTIMAL == 4
\* the value of status before solver.Solve has returned: no status code
SinEstado == UNKNOWN - 1

VARIABLES
    pc,                    \* position of the run
    num_instructores,
    num_grupos,
    num_dias,
    fecha_inicio,
    festivos,
    max_horas_semana,
    max_dias_semana,
    horas_por_asignacion,
    forzar_equidad,
    programas,             \* the "Programa" of each group, by g + 1
    trimestres,            \* the "Trimestre" key of each group, by g + 1
    ambientes,             \* the list of environments
    curriculo_sessions,    \* the full list of curriculum sessions
    curriculo_por_trimestre, \* dict: trimester key -> list of sessions
    dias_no_laborables,
    dias_laborables,
    modelo_creado,         \* cp_model.CpModel() was constructed (variables, constraints)
    llamadas_solver,       \* number of solver.Solve calls
    status,                \* the code solver.Solve returned
    asignacion,            \* solver.Value of asignacion[(i, d, g)], as a support set
    trabajo,               \* solver.Value of the trabajo_dia indicators, as a support set
    status_name,
    stats,
    resultados             \* the returned rows

vars == <<pc, num_instructores, num_grupos, num_dias, fecha_inicio, festivos,
          max_horas_semana, max_dias_semana, horas_por_asignacion,
          forzar_equidad, programas, trimestres, ambientes, curriculo_sessions,
          curriculo_por_trimestre, dias_no_laborables, dias_laborables, modelo_creado,
          llamadas_solver, status, asignacion, trabajo, status_name, stats,
          resultados>>

entradas == <<num_instructores, num_grupos, num_dias, fecha_inicio, festivos,
              max_horas_semana, max_dias_semana, forzar_equidad, programas,
              trimestres, ambientes, curriculo_sessions, curriculo_por_trimestre>>

Max(a, b) == IF a >= b THEN a ELSE b
Min(a, b) == IF a <= b THEN a ELSE b

Instructores == 0 .. (num_instructores - 1)
Grupos == 0 .. (num_grupos - 1)
Dias == 0 .. (num_dias - 1)

(***************************************************************************)
(* Calendar gate.                                                          *)
(***************************************************************************)
weekday(fecha) == fecha % DiasPorSemana

\* the test without the holidays
SoloFinDeSemana(fecha, fest) == weekday(fecha) >= PrimerDiaFinDeSemana

EsNoLaborable(fecha, fest) ==
    weekday(fecha) >= PrimerDiaFinDeSemana \/ fecha \in fest

calcular_dias_no_laborables(inicio, n, fest) ==
    {d \in 0 .. (n - 1) : EsNoLaborable(inicio + d, fest)}

(***************************************************************************)
(* Parameters derived while the model is built.                            *)
(***************************************************************************)
\* the weekly limit taken in hours, not divided by the hours of a session
TopeSinDividir == Max(1, max_horas_semana)

\* the limit and the session length exchanged in the division
TopeInvertido(horas_semana) == Max(1, horas_por_asignacion \div horas_semana)

\* max(1, max_horas_semana // horas_por_asignacion), as a function of the limit
tope_semanal(horas_semana) == Max(1, horas_semana \div horas_por_asignacion)

max_asignaciones_semana == tope_semanal(max_horas_semana)

total_asignaciones == num_grupos * dias_laborables

min_asign_por_inst ==
    IF num_instructores > 0 THEN total_asignaciones \div num_instructores ELSE 0

max_asign_por_inst ==
    min_asign_por_inst
      + (IF num_instructores > 0 /\ total_asignaciones % num_instructores # 0
         THEN 1 ELSE 0)

\* the margin without the division by 10
MargenSinDividir == IF min_asign_por_inst > 0 THEN Max(1, min_asign_por_inst) ELSE 1

margen == IF min_asign_por_inst > 0 THEN Max(1, min_asign_por_inst \div 10) ELSE 1

\* range(dia_inicio, dia_fin) of week w
DiasSemana(w) ==
    (w * DiasPorSemana) .. (Min(w * DiasPorSemana + DiasPorSemana, num_dias) - 1)

(***************************************************************************)
(* Linear expressions over an assignment x (a support set).                *)
(***************************************************************************)
\* sum of asignacion[(i, d, g)] for g in range(num_grupos)
asignaciones_dia(x, i, d) == Cardinality({g \in Grupos : <<i, d, g>> \in x})

\* sum of asignacion[(i, d, g)] for i in range(num_instructores)
instructores_grupo(x, d, g) == Cardinality({i \in Instructores : <<i, d, g>> \in x})

\* sum of asignacion[(i, d, g)] over the days of week w and all groups
asignaciones_semana(x, i, w) ==
    Cardinality({dg \in DiasSemana(w) \X Grupos : <<i, dg[1], dg[2]>> \in x})

\* sum of asignacion[(i, d, g)] over all days and groups
total_instructor(x, i) ==
    Cardinality({dg \in Dias \X Grupos : <<i, dg[1], dg[2]>> \in x})

\* sum of the trabajo_dia indicators of week w
dias_trabajados_semana(t, i, w) ==
    Cardinality({d \in DiasSemana(w) \ dias_no_laborables : <<i, d>> \in t})

(***************************************************************************)
(* The constraints added to the model, per day, per week and per          *)
(* instructor.                                                             *)
(***************************************************************************)
\* 1. model.Add(asignacion[(i, d, g)] == 0) for d in dias_no_laborables
RestriccionNoLaborable(x, d) ==
    d \in dias_no_laborables =>
        \A g \in Grupos : \A i \in Instructores : <<i, d, g>> \notin x

\* AddAtLeastOne in the place of AddExactlyOne
CoberturaAlMenosUno(x, d) ==
    d \notin dias_no_laborables =>
        \A g \in Grupos : instructores_grupo(x, d, g) >= 1

\* 2. model.AddExactlyOne over the instructors, for a working day d
RestriccionCobertura(x, d) ==
    d \notin dias_no_laborables =>
        \A g \in Grupos : instructores_grupo(x, d, g) = 1

\* the model without constraint 3
ExclusividadOmitida(x, d) ==
    \A i \in Instructores : asignaciones_dia(x, i, d) <= num_grupos

\* at most one per (instructor, day, group) in place of at most one per
\* (instructor, day): the bound that the variables being boolean gives anyway
ExclusividadPorVariable(x, d) ==
    \A i \in Instructores : \A g \in Grupos :
        Cardinality({a \in x : a = <<i, d, g>>}) <= 1

\* 3. model.AddAtMostOne over the groups
RestriccionExclusividad(x, d) ==
    \A i \in Instructores : asignaciones_dia(x, i, d) <= 1

\* 4. model.Add(sum(asignaciones_semana) <= max_asignaciones_semana)
RestriccionSesionesSemana(x, w, tope) ==
    \A i \in Instructores : asignaciones_semana(x, i, w) <= tope

\* only the constraint enforced if trabajo_dia: the indicator may stay 0 on a
\* day with an assignment
IndicadorUnaDireccion(x, t, d) ==
    \A i \in Instructores :
        IF d \in dias_no_laborables
        THEN <<i, d>> \notin t
        ELSE <<i, d>> \in t => asignaciones_dia(x, i, d) >= 1

\* the two OnlyEnforceIf constraints that link trabajo_dia to the day's sum;
\* an indicator exists only for a working day
RestriccionIndicador(x, t, d) ==
    \A i \in Instructores :
        IF d \in dias_no_laborables
        THEN <<i, d>> \notin t
        ELSE /\ (<<i, d>> \in t => asignaciones_dia(x, i, d) >= 1)
             /\ (<<i, d>> \notin t => asignaciones_dia(x, i, d) = 0)

\* model.Add(sum(dias_trabajados_semana) <= max_dias_semana)
RestriccionDiasSemana(t, w, tope_dias) ==
    \A i \in Instructores : dias_trabajados_semana(t, i, w) <= tope_dias

\* 5. the equity band
RestriccionEquidad(x, equidad) ==
    \A i \in Instructores :
        (equidad /\ num_instructores > 0) =>
            /\ total_instructor(x, i) >= Max(0, min_asign_por_inst - margen)
            /\ total_instructor(x, i) <= max_asign_por_inst + margen

(***************************************************************************)
(* The assignments that satisfy the whole constraint system, enumerated    *)
(* day by day: every value of the day's boolean variables that the day's   *)
(* constraints admit, kept while the week's sums stay within the weekly    *)
(* limits (a sum over a week only grows as its days are added), the equity *)
(* band applied once the horizon is complete.                              *)
(***************************************************************************)
VariablesDia(S, d) == {<<c[1], d, c[2]>> : c \in S}

IndicadoresDia(T, d) == {<<i, d>> : i \in T}

RestriccionesDia(x, d) ==
    /\ RestriccionNoLaborable(x, d)
    /\ RestriccionCobertura(x, d)
    /\ RestriccionExclusividad(x, d)

RestriccionesSemana(x, t, w, tope, tope_dias) ==
    /\ RestriccionSesionesSemana(x, w, tope)
    /\ RestriccionDiasSemana(t, w, tope_dias)

\* the values of the day's asignacion variables, then those of its indicators
OpcionesDia(d) ==
    LET asignaciones == {S \in SUBSET (Instructores \X Grupos) :
                            RestriccionesDia(VariablesDia(S, d), d)}
    IN  {c \in asignaciones \X (SUBSET Instructores) :
            RestriccionIndicador(VariablesDia(c[1], d), IndicadoresDia(c[2], d), d)}

Extender(P, d, tope, tope_dias) ==
    LET nuevas == {[x |-> pc2[1].x \cup VariablesDia(pc2[2][1], d),
                    t |-> pc2[1].t \cup IndicadoresDia(pc2[2][2], d)] :
                        pc2 \in P \X OpcionesDia(d)}
    IN  {s \in nuevas :
            RestriccionesSemana(s.x, s.t, d \div DiasPorSemana, tope, tope_dias)}

RECURSIVE SolucionesHasta(_, _, _)
SolucionesHasta(d, tope, tope_dias) ==
    IF d < 0 THEN {[x |-> {}, t |-> {}]}
    ELSE Extender(SolucionesHasta(d - 1, tope, tope_dias), d, tope, tope_dias)

\* the satisfying assignments of the model built with these limits and this
\* setting of forzar_equidad
SolucionesCon(tope, tope_dias, equidad) ==
    {s \in SolucionesHasta(num_dias - 1, tope, tope_dias) :
        RestriccionEquidad(s.x, equidad)}

\* the satisfying assignments of the model built from the inputs
Soluciones == SolucionesCon(max_asignaciones_semana, max_dias_semana, forzar_equidad)

(***************************************************************************)
(* The objective: max_carga - min_carga over the instructors' loads.       *)
(***************************************************************************)
cargas(x) == {total_instructor(x, i) : i \in Instructores}

SetMax(S) == CHOOSE m \in S : \A n \in S : n <= m
SetMin(S) == CHOOSE m \in S : \A n \in S : m <= n

desbalance(x) == SetMax(cargas(x)) - SetMin(cargas(x))

\* a model without model.Minimize: every solution is optimal
OptimasSinObjetivo(S) == S

\* the solutions of S whose objective value is the least one over S
Optimas(S) ==
    IF S = {} THEN {}
    ELSE LET minimo == SetMin({desbalance(r.x) : r \in S})
         IN  {s \in S : desbalance(s.x) = minimo}

\* status_names without the entry of cp_model.INFEASIBLE
status_names_sin_infeasible(c) ==
    IF c = OPTIMAL THEN "OPTIMAL"
    ELSE IF c = FEASIBLE THEN "FEASIBLE"
    ELSE IF c = MODEL_INVALID THEN "MODEL_INVALID"
    ELSE "UNKNOWN"

(***************************************************************************)
(* status_names.get(status, "UNKNOWN")                                     *)
(***************************************************************************)
status_names(c) ==
    IF c = OPTIMAL THEN "OPTIMAL"
    ELSE IF c = FEASIBLE THEN "FEASIBLE"
    ELSE IF c = INFEASIBLE THEN "INFEASIBLE"
    ELSE IF c = MODEL_INVALID THEN "MODEL_INVALID"
    ELSE IF c = UNKNOWN THEN "UNKNOWN"
    ELSE "UNKNOWN"

(***************************************************************************)
(* Materialization.  Texts that the code only compares are numbers with    *)
(* the same order: "Fecha" (%Y-%m-%d) is the date ordinal, "Hora Inicio"   *)
(* and "Hora Fin" (HH:MM) are 100 * HH + MM, "Programa" is an index into   *)
(* the sorted program names.                                               *)
(***************************************************************************)
jornada_options == <<"Manana", "Tarde", "Noche">>

jornada_de(d, g) == jornada_options[((d + g) % Len(jornada_options)) + 1]

hora_inicio_de(jornada) ==
    IF jornada = "Manana" THEN 800 ELSE IF jornada = "Tarde" THEN 1400 ELSE 1800

hora_fin_de(jornada) ==
    IF jornada = "Manana" THEN 1300 ELSE IF jornada = "Tarde" THEN 1800 ELSE 2200

\* the index without the factor num_grupos
AmbIdxSinNumGrupos(d, g) == (d + g) % Len(ambientes)

\* amb_idx = (d * num_grupos + g) % num_ambientes
amb_idx(d, g) == (d * num_grupos + g) % Len(ambientes)

\* the synthetic session used when there is no curriculum at all
SesionSinAsignatura ==
    [asignatura |-> "Sin asignatura", hora_inicio |-> 800, hora_fin |-> 1200]

\* the lookup without the placeholder list
SesionesSinSustituto(g) ==
    LET clave == trimestres[g + 1]
        del_trimestre == IF clave \in DOMAIN curriculo_por_trimestre
                         THEN curriculo_por_trimestre[clave]
                         ELSE curriculo_sessions
    IN  IF del_trimestre # <<>> THEN del_trimestre ELSE curriculo_sessions

\* curriculo_por_trimestre.get(grupo_trimestre_key, curriculo_sessions)
\*   or curriculo_sessions, then the placeholder list if that is empty too
sesiones_trimestre(g) ==
    LET clave == trimestres[g + 1]
        del_trimestre == IF clave \in DOMAIN curriculo_por_trimestre
                         THEN curriculo_por_trimestre[clave]
                         ELSE curriculo_sessions
        o_todas == IF del_trimestre # <<>> THEN del_trimestre ELSE curriculo_sessions
    IN  IF o_todas = <<>> THEN <<SesionSinAsignatura>> ELSE o_todas

\* curr_idx = (d * num_grupos + g) % num_sesiones_trim
curr_idx(d, g, num_sesiones_trim) == (d * num_grupos + g) % num_sesiones_trim

curr_info(d, g) ==
    sesiones_trimestre(g)[curr_idx(d, g, Len(sesiones_trimestre(g))) + 1]

\* the row with the times of the chosen session in place of the jornada's
FilaConHorasDeSesion(i, d, g) ==
    [Fecha |-> fecha_inicio + d,
     Dia |-> weekday(fecha_inicio + d),
     Jornada |-> jornada_de(d, g),
     Ficha |-> g,
     Programa |-> programas[g + 1],
     Trimestre |-> trimestres[g + 1],
     Asignatura |-> curr_info(d, g).asignatura,
     Ambiente |-> ambientes[amb_idx(d, g) + 1],
     HoraInicio |-> curr_info(d, g).hora_inicio,
     HoraFin |-> curr_info(d, g).hora_fin,
     Instructor |-> i,
     Festivo |-> d \in dias_no_laborables]

\* the row of (i, d, g); "Ficha" and "Instructor" stand for grupos[g] and
\* instructores[i], whose texts the row copies
Fila(i, d, g) ==
    [Fecha |-> fecha_inicio + d,
     Dia |-> weekday(fecha_inicio + d),
     Jornada |-> jornada_de(d, g),
     Ficha |-> g,
     Programa |-> programas[g + 1],
     Trimestre |-> trimestres[g + 1],
     Asignatura |-> curr_info(d, g).asignatura,
     Ambiente |-> ambientes[amb_idx(d, g) + 1],
     HoraInicio |-> hora_inicio_de(jornada_de(d, g)),
     HoraFin |-> hora_fin_de(jornada_de(d, g)),
     Instructor |-> i,
     Festivo |-> d \in dias_no_laborables]

\* the loops stopping one triple early
RECURSIVE FilasSinUltimaTerna(_, _)
FilasSinUltimaTerna(k, x) ==
    IF k >= num_dias * num_grupos * num_instructores - 1 THEN <<>>
    ELSE LET d == k \div (num_grupos * num_instructores)
             g == (k \div num_instructores) % num_grupos
             i == k % num_instructores
         IN  (IF <<i, d, g>> \in x THEN <<Fila(i, d, g)>> ELSE <<>>)
             \o FilasSinUltimaTerna(k + 1, x)

\* the three nested loops over d, g, i, flattened: step k visits
\* d = k div (G * I), g = (k div I) mod G, i = k mod I
RECURSIVE FilasDesde(_, _)
FilasDesde(k, x) ==
    IF k >= num_dias * num_grupos * num_instructores THEN <<>>
    ELSE LET d == k \div (num_grupos * num_instructores)
             g == (k \div num_instructores) % num_grupos
             i == k % num_instructores
         IN  (IF <<i, d, g>> \in x THEN <<Fila(i, d, g)>> ELSE <<>>)
               \o FilasDesde(k + 1, x)

\* the sort key ['Fecha', 'Hora Inicio', 'Programa'], compared lexicographically
ClaveMenor(a, b) ==
    \/ a.Fecha < b.Fecha
    \/ a.Fecha = b.Fecha /\ a.HoraInicio < b.HoraInicio
    \/ a.Fecha = b.Fecha /\ a.HoraInicio = b.HoraInicio /\ a.Programa < b.Programa

\* r placed before the elements of equal key: a sort that is not stable
RECURSIVE InsertarAntesDeIguales(_, _)
InsertarAntesDeIguales(s, r) ==
    IF s = <<>> THEN <<r>>
    ELSE IF ~ClaveMenor(s[Len(s)], r)
         THEN Append(InsertarAntesDeIguales(SubSeq(s, 1, Len(s) - 1), r), s[Len(s)])
    ELSE Append(s, r)

\* r placed after the last element of the sorted s whose key is not greater
RECURSIVE Insertar(_, _)
Insertar(s, r) ==
    IF s = <<>> THEN <<r>>
    ELSE IF ClaveMenor(r, s[Len(s)]) THEN Append(Insertar(SubSeq(s, 1, Len(s) - 1), r), s[Len(s)])
    ELSE Append(s, r)

\* sort_values(['Fecha', 'Hora Inicio', 'Programa']); the three columns exist
\* in every row, so the except branch (the sort by 'Fecha' alone) is not taken
RECURSIVE sort_values(_)
sort_values(s) ==
    IF s = <<>> THEN <<>>
    ELSE Insertar(sort_values(SubSeq(s, 1, Len(s) - 1)), s[Len(s)])

(***************************************************************************)
(* The run.                                                                *)
(***************************************************************************)
StatsVacio == <<>>

\* the session cargar_archivos_basic supplies for an empty curriculum
SesionPorDefecto ==
    [asignatura |-> "Clase General", hora_inicio |-> 800, hora_fin |-> 1200]

\* the state of a run before it starts
EstadoInicial ==
    /\ pc = "inicio"
    /\ dias_no_laborables = {}
    /\ dias_laborables = 0
    /\ modelo_creado = FALSE
    /\ llamadas_solver = 0
    /\ status = SinEstado
    /\ asignacion = {}
    /\ trabajo = {}
    /\ status_name = ""
    /\ stats = StatsVacio
    /\ resultados = <<>>

Init ==
    /\ num_instructores \in InstructoresOpciones
    /\ num_grupos \in 0 .. MaxGrupos
    /\ num_dias \in 1 .. MaxDias
    /\ fecha_inicio \in FechasInicio
    /\ festivos \in FestivosOpciones
    /\ max_horas_semana \in HorasSemanaOpciones
    /\ max_dias_semana \in DiasSemanaOpciones
    /\ horas_por_asignacion \in HorasSesionOpciones
    /\ forzar_equidad \in BOOLEAN
    /\ programas = [g \in 1 .. num_grupos |-> 1]
    /\ trimestres = [g \in 1 .. num_grupos |-> "1"]
    /\ ambientes = <<"Aula General">>
    /\ curriculo_sessions = <<SesionPorDefecto>>
    /\ curriculo_por_trimestre = ("1" :> <<SesionPorDefecto>>)
    /\ EstadoInicial

\* cargar_archivos_basic: "Debe haber al menos 1 grupo/ficha y 1 instructor",
\* return None, and the handler stops on datos_basic is None
CargarArchivosBasic ==
    /\ pc = "inicio"
    /\ pc' = IF num_grupos = 0 \/ num_instructores = 0 THEN "st_stop" ELSE "datos"
    /\ UNCHANGED <<entradas, horas_por_asignacion, dias_no_laborables,
                   dias_laborables, modelo_creado, llamadas_solver, status,
                   asignacion, trabajo, status_name, stats, resultados>>

\* a caller of generar_horario_optimo other than the button handler: the
\* counts are whatever it passes
LlamadaDirecta ==
    /\ pc = "inicio"
    /\ pc' = "datos"
    /\ UNCHANGED <<entradas, horas_por_asignacion, dias_no_laborables,
                   dias_laborables, modelo_creado, llamadas_solver, status,
                   asignacion, trabajo, status_name, stats, resultados>>

CalcularDiasNoLaborables ==
    /\ pc = "datos"
    /\ dias_no_laborables' = calcular_dias_no_laborables(fecha_inicio, num_dias, festivos)
    /\ pc' = "generar"
    /\ UNCHANGED <<entradas, horas_por_asignacion, dias_laborables, modelo_creado,
                   llamadas_solver, status, asignacion, trabajo, status_name,
                   stats, resultados>>

\* the guard with < in the place of <=
SinDiasLaborablesEstricto(n) == n < 0

\* the guard "if dias_laborables <= 0"
SinDiasLaborables(n) == n <= 0

\* generar_horario_optimo up to horas_por_asignacion = max(1, horas_por_asignacion)
GenerarEntrada ==
    /\ pc = "generar"
    /\ dias_laborables' = num_dias - Cardinality(dias_no_laborables)
    /\ IF SinDiasLaborables(dias_laborables')
       THEN /\ resultados' = <<>>
            /\ status_name' = "NO_DIAS_LABORABLES"
            /\ stats' = StatsVacio
            /\ pc' = "retorno"
            /\ UNCHANGED horas_por_asignacion
       ELSE /\ horas_por_asignacion' = Max(1, horas_por_asignacion)
            /\ pc' = "modelo"
            /\ UNCHANGED <<resultados, status_name, stats>>
    /\ UNCHANGED <<entradas, dias_no_laborables, modelo_creado, llamadas_solver,
                   status, asignacion, trabajo>>

\* model = cp_model.CpModel(), the variables, the constraints, the objective
ConstruirModelo ==
    /\ pc = "modelo"
    /\ modelo_creado' = TRUE
    /\ pc' = "resolver"
    /\ UNCHANGED <<entradas, horas_por_asignacion, dias_no_laborables,
                   dias_laborables, llamadas_solver, status, asignacion, trabajo,
                   status_name, stats, resultados>>

\* AddMaxEquality / AddMinEquality over cargas need at least one load
ModeloValido == num_instructores > 0

\* what solver.Solve may answer for the model built, with the values it holds
\* then: a status that carries a solution comes with one of Soluciones
\* (OPTIMAL with one of least desbalance); the time limit may end any search
\* with UNKNOWN; a model without instructors has no solution and is answered
\* as invalid or as infeasible
Respuestas ==
    LET S == IF ModeloValido THEN Soluciones ELSE {}
        ninguna == [x |-> {}, t |-> {}]
    IN  {[status |-> FEASIBLE, sol |-> s] : s \in S}
          \cup {[status |-> OPTIMAL, sol |-> s] : s \in Optimas(S)}
          \cup {[status |-> UNKNOWN, sol |-> ninguna]}
          \cup (IF S = {} THEN {[status |-> INFEASIBLE, sol |-> ninguna]} ELSE {})
          \cup (IF ModeloValido THEN {} ELSE {[status |-> MODEL_INVALID, sol |-> ninguna]})

\* UNKNOWN taken for a status that carries a solution
ConSolucionOUnknown(c) == c \in {OPTIMAL, FEASIBLE, UNKNOWN}

\* status in (cp_model.OPTIMAL, cp_model.FEASIBLE)
ConSolucion(c) == c \in {OPTIMAL, FEASIBLE}

Diagnosticos(nombre) ==
    [status |-> nombre,
     tiempo_solver |-> 0,
     conflictos |-> 0,
     ramas |-> 0,
     dias_laborables |-> dias_laborables,
     total_asignaciones_esperadas |-> total_asignaciones]

\* solver.Solve(model), status_names.get, stats, and the return of the
\* statuses that carry no solution
Resolver ==
    /\ pc = "resolver"
    /\ \E r \in Respuestas :
          /\ status' = r.status
          /\ asignacion' = r.sol.x
          /\ trabajo' = r.sol.t
    /\ llamadas_solver' = llamadas_solver + 1
    /\ status_name' = status_names(status')
    /\ stats' = Diagnosticos(status_name')
    /\ pc' = IF ConSolucion(status') THEN "materializar" ELSE "retorno"
    /\ resultados' = <<>>
    /\ UNCHANGED <<entradas, horas_por_asignacion, dias_no_laborables,
                   dias_laborables, modelo_creado>>

\* a row is built with an empty list of environments or of sessions: the
\* modulo by its length raises ZeroDivisionError
DivisionPorCero ==
    \E a \in asignacion :
        Len(ambientes) = 0 \/ Len(sesiones_trimestre(a[3])) = 0

\* the rows of the solution, sorted
Materializar ==
    /\ pc = "materializar"
    /\ IF DivisionPorCero
       THEN /\ resultados' = <<>>
            /\ pc' = "ZeroDivisionError"
       ELSE /\ resultados' = sort_values(FilasDesde(0, asignacion))
            /\ pc' = "retorno"
    /\ UNCHANGED <<entradas, horas_por_asignacion, dias_no_laborables,
                   dias_laborables, modelo_creado, llamadas_solver, status,
                   asignacion, trabajo, status_name, stats>>

ClavesLeidas == {"tiempo_solver", "conflictos", "ramas"}

\* the handler's col2.metric("Tiempo", stats['tiempo_solver']) and the two
\* reads that follow: a missing key raises KeyError, which nothing catches
MostrarEstadisticas ==
    /\ pc = "retorno"
    /\ pc' = IF ClavesLeidas \subseteq DOMAIN stats THEN "mostrado" ELSE "KeyError"
    /\ UNCHANGED <<entradas, horas_por_asignacion, dias_no_laborables,
                   dias_laborables, modelo_creado, llamadas_solver, status,
                   asignacion, trabajo, status_name, stats, resultados>>

Next ==
    \/ CargarArchivosBasic
    \/ LlamadaDirecta
    \/ CalcularDiasNoLaborables
    \/ GenerarEntrada
    \/ ConstruirModelo
    \/ Resolver
    \/ Materializar
    \/ MostrarEstadisticas

Spec == Init /\ [][Next]_vars

----------------------------------------------------------------------------
\* A second specification for the materialization: the same program, started
\* from inputs that vary the groups' programs and trimesters, the
\* environments and the curriculum, with solver inputs that always solve.
\* Four groups on one day are the smallest input where two rows share a date
\* and a jornada; they vary the programs only.

MaxDiasMat == 3
GruposMat == {1, 2, 4}
FechasInicioMat == {0, 4}

Sesion(nombre, inicio, fin) ==
    [asignatura |-> nombre, hora_inicio |-> inicio, hora_fin |-> fin]

S1 == Sesion("S1", 800, 1200)
S2 == Sesion("S2", 1400, 1600)
S3 == Sesion("S3", 600, 1000)

\* (curriculo_sessions, curriculo_por_trimestre): no curriculum at all, a
\* trimester without bucket, the grouping cargar_archivos_basic builds, an
\* empty bucket, and buckets without a full list
CurriculoOpciones ==
    { [sesiones |-> <<>>, por_trimestre |-> <<>>],
      [sesiones |-> <<S1, S2>>, por_trimestre |-> ("1" :> <<S1, S2>>)],
      [sesiones |-> <<S1, S2, S3>>,
       por_trimestre |-> ("1" :> <<S1, S2>> @@ "2" :> <<S3>>)],
      [sesiones |-> <<S1, S2, S3>>,
       por_trimestre |-> ("1" :> <<>> @@ "2" :> <<S3, S1>>)],
      [sesiones |-> <<>>, por_trimestre |-> ("1" :> <<S2>> @@ "2" :> <<>>)] }

AmbientesOpciones == { <<"A1">>, <<"A1", "A2">>, <<"A1", "A2", "A3">> }

ProgramasOpciones(n) ==
    { [g \in 1 .. n |-> 1],
      [g \in 1 .. n |-> IF g = 1 THEN 2 ELSE 1],
      [g \in 1 .. n |-> IF g = n THEN 2 ELSE 1] }

TrimestresOpciones(n) ==
    { [g \in 1 .. n |-> "1"],
      [g \in 1 .. n |-> "2"],
      [g \in 1 .. n |-> IF g % 2 = 1 THEN "1" ELSE "2"] }

InitMat ==
    /\ num_grupos \in GruposMat
    /\ num_instructores = num_grupos
    /\ num_dias \in 1 .. (IF num_grupos > 2 THEN 1 ELSE MaxDiasMat)
    /\ fecha_inicio \in FechasInicioMat
    /\ festivos = {}
    /\ max_horas_semana = 4
    /\ max_dias_semana = 4
    /\ horas_por_asignacion = 1
    /\ forzar_equidad = FALSE
    /\ programas \in ProgramasOpciones(num_grupos)
    /\ trimestres \in IF num_grupos > 2
                      THEN {[g \in 1 .. num_grupos |-> "1"]}
                      ELSE TrimestresOpciones(num_grupos)
    /\ ambientes \in IF num_grupos > 2
                     THEN {<<"A1", "A2", "A3">>}
                     ELSE AmbientesOpciones
    /\ \E c \in CurriculoOpciones :
        /\ num_grupos > 2 => c.sesiones = <<S1, S2>>
        /\ curriculo_sessions = c.sesiones
        /\ curriculo_por_trimestre = c.por_trimestre
    /\ EstadoInicial

SpecMat == InitMat /\ [][Next]_vars

(***************************************************************************)
(* Properties.                                                             *)
(***************************************************************************)
\* the solver's answer was accepted
Aceptada == status \in {OPTIMAL, FEASIBLE}

\* generar_horario_optimo has returned
Retornado == pc \in {"retorno", "mostrado", "KeyError"}

\* the weekly window [7w, min(7w + 7, num_dias))
Ventana(w) == {d \in 0 .. (num_dias - 1) : 7 * w <= d /\ d < 7 * w + 7}

Ventanas == 0 .. ((num_dias - 1) \div 7)

NumInstructoresDe(d, g) ==
    Cardinality({i \in 0 .. (num_instructores - 1) : <<i, d, g>> \in asignacion})

NumGruposDe(i, d) ==
    Cardinality({g \in 0 .. (num_grupos - 1) : <<i, d, g>> \in asignacion})

SesionesEnVentana(i, w) ==
    Cardinality({a \in asignacion : a[1] = i /\ a[2] \in Ventana(w)})

DiasConAsignacion(i, w) ==
    {d \in Ventana(w) \ dias_no_laborables : NumGruposDe(i, d) >= 1}

Carga(i) == Cardinality({a \in asignacion : a[1] = i})

\* C1: in every accepted assignment each group has exactly one instructor on
\* every working day and no instructor on any non-working day
C1_Cobertura ==
    Aceptada =>
        \A g \in 0 .. (num_grupos - 1) : \A d \in 0 .. (num_dias - 1) :
            NumInstructoresDe(d, g) = IF d \in dias_no_laborables THEN 0 ELSE 1

C1_Witness ==
    /\ Aceptada
    /\ num_grupos = 2
    /\ num_instructores = 2
    /\ dias_no_laborables # {}
    /\ dias_laborables >= 2

\* C2: in every accepted assignment each instructor has at most one group on
\* each day of the horizon
C2_Exclusividad ==
    Aceptada =>
        \A i \in 0 .. (num_instructores - 1) : \A d \in 0 .. (num_dias - 1) :
            NumGruposDe(i, d) <= 1

C2_Witness ==
    /\ Aceptada
    /\ num_grupos = 2
    /\ \E i \in 0 .. (num_instructores - 1) : Carga(i) >= 2

C4_DiasSemana ==
    Aceptada =>
        /\ \A i \in 0 .. (num_instructores - 1) : \A w \in Ventanas :
              Cardinality(DiasConAsignacion(i, w)) <= max_dias_semana
        /\ \A i \in 0 .. (num_instructores - 1) :
              \A d \in (0 .. (num_dias - 1)) \ dias_no_laborables :
                  <<i, d>> \in trabajo <=> NumGruposDe(i, d) >= 1

C4_Witness ==
    /\ Aceptada
    /\ \E i \in 0 .. (num_instructores - 1) : \E w \in Ventanas :
          /\ Cardinality(DiasConAsignacion(i, w)) = max_dias_semana
          /\ Cardinality(Ventana(w) \ dias_no_laborables) > max_dias_semana

\* C5: with forzar_equidad, in every accepted assignment each instructor's
\* load over the horizon lies in [max(0, low - margin), high + margin], low =
\* total div instructors, high = low + 1 if the division leaves a remainder
\* else low, margin = max(1, low div 10), total = groups * working days
C5_Equidad ==
    (Aceptada /\ forzar_equidad) =>
        LET total == num_grupos * (num_dias - Cardinality(dias_no_laborables))
            low == total \div num_instructores
            high == IF total % num_instructores # 0 THEN low + 1 ELSE low
            margin == IF low \div 10 >= 1 THEN low \div 10 ELSE 1
        IN  \A i \in 0 .. (num_instructores - 1) :
                /\ Carga(i) >= (IF low - margin >= 0 THEN low - margin ELSE 0)
                /\ Carga(i) <= high + margin

C5_Witness ==
    /\ Aceptada
    /\ forzar_equidad
    /\ num_instructores = 2
    /\ num_grupos * dias_laborables = 4
    /\ \E i \in 0 .. 1 : Carga(i) = 3

\* C6: with no working day (num_dias - |dias_no_laborables| <= 0) the run
\* returns the no-working-days outcome with no rows, and neither the model is
\* created nor the solver called
C6_SinDiasLaborables ==
    (pc \notin {"inicio", "datos", "generar", "st_stop"}
        /\ num_dias - Cardinality(dias_no_laborables) <= 0) =>
            /\ Retornado
            /\ status_name = "NO_DIAS_LABORABLES"
            /\ resultados = <<>>
            /\ ~modelo_creado
            /\ llamadas_solver = 0

C6_Witness ==
    /\ pc = "retorno"
    /\ status_name = "NO_DIAS_LABORABLES"
    /\ \E d \in dias_no_laborables : (fecha_inicio + d) % 7 < 5

\* C7 as stated: with no instructor or no group the configuration is rejected
\* before the model is built, and the solver is never called, whoever calls
C7_RechazoAntesDelModelo ==
    (num_instructores = 0 \/ num_grupos = 0) =>
        (~modelo_creado /\ llamadas_solver = 0)

\* C8 as stated: the status returned on every path is one of OPTIMAL,
\* FEASIBLE, INFEASIBLE, MODEL_INVALID, UNKNOWN
C8_EstadoCerrado ==
    Retornado =>
        status_name \in {"OPTIMAL", "FEASIBLE", "INFEASIBLE", "MODEL_INVALID", "UNKNOWN"}

\* C8 as amended: the status returned is the name of the code the solver
\* answered, one of OPTIMAL, FEASIBLE, INFEASIBLE, MODEL_INVALID, UNKNOWN, on
\* every path that calls the solver, a code outside the mapping being reported
\* as UNKNOWN; on the path that returns before the model is built it is the
\* sixth status NO_DIAS_LABORABLES
C8_EstadoRetornado ==
    /\ Retornado =>
          IF llamadas_solver = 0
          THEN status_name = "NO_DIAS_LABORABLES"
          ELSE \/ status = OPTIMAL /\ status_name = "OPTIMAL"
               \/ status = FEASIBLE /\ status_name = "FEASIBLE"
               \/ status = INFEASIBLE /\ status_name = "INFEASIBLE"
               \/ status = MODEL_INVALID /\ status_name = "MODEL_INVALID"
               \/ status = UNKNOWN /\ status_name = "UNKNOWN"
    /\ \A c \in (SinEstado .. (OPTIMAL + 2)) \ {UNKNOWN, MODEL_INVALID, FEASIBLE, INFEASIBLE, OPTIMAL} :
          status_names(c) = "UNKNOWN"

C8_Witness ==
    /\ pc = "retorno"
    /\ status = INFEASIBLE
    /\ status_name = "INFEASIBLE"

C9_Estado ==
    /\ llamadas_solver <= 1
    /\ llamadas_solver = 1 => modelo_creado
    /\ pc = "materializar" => (Aceptada /\ llamadas_solver = 1)
    /\ resultados # <<>> => (Aceptada /\ llamadas_solver = 1)
    /\ (Retornado /\ llamadas_solver = 1 /\ ~Aceptada) =>
          /\ resultados = <<>>
          /\ \/ status = INFEASIBLE /\ status_name = "INFEASIBLE"
             \/ status = MODEL_INVALID /\ status_name = "MODEL_INVALID"
             \/ status = UNKNOWN /\ status_name = "UNKNOWN"

C9_Paso ==
    /\ llamadas_solver' # llamadas_solver =>
          (llamadas_solver = 0 /\ llamadas_solver' = 1 /\ modelo_creado)
    /\ resultados' # resultados => (pc = "materializar" /\ Aceptada)
    /\ Retornado => (Retornado' /\ llamadas_solver' = llamadas_solver
                        /\ status' = status /\ status_name' = status_name)
    /\ max_horas_semana' = max_horas_semana
    /\ max_dias_semana' = max_dias_semana
    /\ forzar_equidad' = forzar_equidad
    /\ num_dias' = num_dias
    /\ modelo_creado => horas_por_asignacion' = horas_por_asignacion

\* C9: a run builds the model, calls the solver exactly once and materializes
\* only after the solver answered OPTIMAL or FEASIBLE; INFEASIBLE,
\* MODEL_INVALID and UNKNOWN are returned verbatim with no rows, with no
\* second call and no change of the limits, the horizon or the equity toggle
C9_UnSoloIntento == []C9_Estado /\ [][C9_Paso]_vars

C9_Witness ==
    /\ pc = "retorno"
    /\ status = INFEASIBLE
    /\ llamadas_solver = 1
    /\ num_instructores = 2
    /\ num_grupos = 1

\* C10 as stated: every outcome without a solution returns diagnostics that
\* hold the elapsed time, the conflict count and the branch count, and the
\* caller's read of them does not end the run in an uncaught failure
C10_DiagnosticosCompletos ==
    /\ (Retornado /\ ~Aceptada) => {"tiempo_solver", "conflictos", "ramas"} \subseteq DOMAIN stats
    /\ pc # "KeyError"

----------------------------------------------------------------------------
\* the rows of day index d and group index g
FilasDe(d, g) ==
    {k \in 1 .. Len(resultados) :
        resultados[k].Fecha = fecha_inicio + d /\ resultados[k].Ficha = g}

\* d is a Monday-to-Friday date that is no holiday
EsDiaHabil(d) ==
    (fecha_inicio + d) % 7 < 5 /\ (fecha_inicio + d) \notin festivos

NumDiasHabiles == Cardinality({d \in 0 .. (num_dias - 1) : EsDiaHabil(d)})

\* C11: a solved run returns exactly one row per (working day, group) and
\* none on a non-working day, so there are num_grupos * working days rows, the
\* reported expected count; the rows of one day have pairwise distinct
\* instructors; 1 instructor, 1 group and 5 working days give 5 rows of the
\* same instructor
C11_UnaFilaPorDiaYGrupo ==
    (Retornado /\ Aceptada) =>
        /\ \A d \in 0 .. (num_dias - 1) : \A g \in 0 .. (num_grupos - 1) :
              Cardinality(FilasDe(d, g)) = IF EsDiaHabil(d) THEN 1 ELSE 0
        /\ Len(resultados) = num_grupos * NumDiasHabiles
        /\ Len(resultados) = stats.total_asignaciones_esperadas
        /\ \A k1, k2 \in 1 .. Len(resultados) :
              (k1 # k2 /\ resultados[k1].Fecha = resultados[k2].Fecha)
                  => resultados[k1].Instructor # resultados[k2].Instructor
        /\ (num_instructores = 1 /\ num_grupos = 1 /\ NumDiasHabiles = 5)
              => /\ Len(resultados) = 5
                 /\ \A k \in 1 .. Len(resultados) : resultados[k].Instructor = 0

\* a solved run of 2 groups with a weekend in the horizon, and the run of
\* 1 instructor, 1 group and 5 working days
C11_Witness ==
    /\ Retornado /\ Aceptada
    /\ \/ num_grupos = 2 /\ NumDiasHabiles >= 2 /\ NumDiasHabiles < num_dias
       \/ num_instructores = 1 /\ num_grupos = 1 /\ NumDiasHabiles = 5

\* the run of 1 instructor, 1 group and 5 working days
C11_EscenarioA ==
    /\ Retornado /\ Aceptada
    /\ num_instructores = 1 /\ num_grupos = 1 /\ NumDiasHabiles = 5
    /\ Len(resultados) = 5
----------------------------------------------------------------------------
\* the pairs (max_horas_semana, max_dias_semana) that raise one limit or both
\* and lower none
LimitesMayores ==
    {l \in HorasSemanaOpciones \X DiasSemanaOpciones :
        /\ l[1] >= max_horas_semana
        /\ l[2] >= max_dias_semana
        /\ l # <<max_horas_semana, max_dias_semana>>}

SolucionesConLimites(horas_semana, dias_semana) ==
    SolucionesCon(tope_semanal(horas_semana), dias_semana, forzar_equidad)

\* C12: raising max_horas_semana or max_dias_semana with every other input
\* fixed keeps every satisfying assignment, so a configuration that has one
\* still has one
C12_Monotonia ==
    pc = "resolver" =>
        \A l \in LimitesMayores :
            LET antes == SolucionesConLimites(max_horas_semana, max_dias_semana)
                despues == SolucionesConLimites(l[1], l[2])
            IN  /\ antes \subseteq despues
                /\ antes # {} => despues # {}

\* a configuration with a satisfying assignment that gets more of them with
\* a larger limit
C12_Witness ==
    /\ pc = "resolver"
    /\ \E l \in LimitesMayores :
          LET antes == SolucionesConLimites(max_horas_semana, max_dias_semana)
              despues == SolucionesConLimites(l[1], l[2])
          IN  antes # {} /\ antes # despues

\* max load - min load of the instructors in assignment x
Dispersion(x) ==
    LET C == {Cardinality({a \in x : a[1] = i}) : i \in 0 .. (num_instructores - 1)}
    IN  (CHOOSE m \in C : \A n \in C : n <= m) - (CHOOSE m \in C : \A n \in C : m <= n)

\* C13: with and without equity, the assignment returned with OPTIMAL has a
\* load spread no larger than that of any satisfying assignment, and the
\* satisfying assignments with equity are among those without it
C13_OptimoMinimizaDispersion ==
    /\ (pc = "materializar" /\ status = OPTIMAL) =>
          \A s \in Soluciones : Dispersion(asignacion) <= Dispersion(s.x)
    /\ pc = "resolver" =>
          SolucionesCon(max_asignaciones_semana, max_dias_semana, TRUE)
              \subseteq SolucionesCon(max_asignaciones_semana, max_dias_semana, FALSE)

\* an OPTIMAL answer with equity enforced, where some satisfying assignment has
\* a larger spread and equity excludes some assignment
C13_Witness ==
    /\ pc = "materializar" /\ status = OPTIMAL /\ forzar_equidad
    /\ \E s \in Soluciones : Dispersion(asignacion) < Dispersion(s.x)
    /\ SolucionesCon(max_asignaciones_semana, max_dias_semana, TRUE)
          # SolucionesCon(max_asignaciones_semana, max_dias_semana, FALSE)
----------------------------------------------------------------------------
\* the rows of a solved run are returned
FilasRetornadas == pc \in {"retorno", "mostrado"} /\ Aceptada

\* the day index and the group index of a row
DiaDe(r) == r.Fecha - fecha_inicio
GrupoDe(r) == r.Ficha

\* the session list the claim gives group g: the bucket of its trimester if
\* there is a non-empty one, else the full list if non-empty, else the
\* placeholder
ListaResuelta(g) ==
    LET clave == trimestres[g + 1]
    IN  IF clave \in DOMAIN curriculo_por_trimestre
           /\ Len(curriculo_por_trimestre[clave]) >= 1
        THEN curriculo_por_trimestre[clave]
        ELSE IF Len(curriculo_sessions) >= 1 THEN curriculo_sessions
        ELSE <<[asignatura |-> "Sin asignatura", hora_inicio |-> 800,
                hora_fin |-> 1200]>>

\* C14: materialization never aborts on missing curriculum data; each row's
\* session list is the trimester's non-empty bucket, else the full list, else
\* the one-element placeholder, has length L >= 1, and the row takes its
\* element (d * num_grupos + g) mod L
C14_SesionesResueltas ==
    /\ pc # "ZeroDivisionError"
    /\ FilasRetornadas =>
          \A k \in 1 .. Len(resultados) :
              LET d == DiaDe(resultados[k])
                  g == GrupoDe(resultados[k])
                  L == Len(ListaResuelta(g))
              IN  /\ L >= 1
                  /\ resultados[k].Asignatura =
                        ListaResuelta(g)[((d * num_grupos + g) % L) + 1].asignatura

\* rows of a group served by its bucket and of a group whose trimester has no
\* bucket
C14_Witness ==
    /\ FilasRetornadas
    /\ \E k1, k2 \in 1 .. Len(resultados) :
          /\ resultados[k1].Trimestre \in DOMAIN curriculo_por_trimestre
          /\ curriculo_por_trimestre[resultados[k1].Trimestre] # <<>>
          /\ resultados[k2].Trimestre \notin DOMAIN curriculo_por_trimestre
          /\ resultados[k2].Asignatura # "Sin asignatura"

\* rows built from the placeholder: no bucket and no session at all
C14_SinCurriculo ==
    /\ FilasRetornadas
    /\ \E k \in 1 .. Len(resultados) : resultados[k].Asignatura = "Sin asignatura"

\* rows of a group whose bucket is empty, taken from the full list
C14_BucketVacio ==
    /\ FilasRetornadas
    /\ \E k \in 1 .. Len(resultados) :
          /\ resultados[k].Trimestre \in DOMAIN curriculo_por_trimestre
          /\ curriculo_por_trimestre[resultados[k].Trimestre] = <<>>
          /\ resultados[k].Asignatura # "Sin asignatura"
----------------------------------------------------------------------------
\* the session indices of group g on the days d0 .. d0 + L - 1, for its
\* resolved list of length L
IndicesDelCiclo(g, d0) ==
    LET L == Len(sesiones_trimestre(g))
    IN  {curr_idx(d, g, L) : d \in d0 .. (d0 + L - 1)}

\* C15: over L consecutive day indices every group is given every session
\* of its resolved list of length L
C15_CicloCompleto ==
    \A g \in 0 .. (num_grupos - 1) : \A d0 \in 0 .. MaxDiasMat :
        IndicesDelCiclo(g, d0) = 0 .. (Len(sesiones_trimestre(g)) - 1)

\* returned rows of 2 groups over 2 working days where group 0 has a list of
\* 2 sessions and is given only one of them
C15_SesionRepetida ==
    /\ FilasRetornadas /\ num_grupos = 2
    /\ Len(sesiones_trimestre(0)) = 2
    /\ \E k1, k2 \in 1 .. Len(resultados) :
          /\ resultados[k1].Ficha = 0 /\ resultados[k2].Ficha = 0
          /\ resultados[k2].Fecha = resultados[k1].Fecha + 1
          /\ resultados[k1].Asignatura = resultados[k2].Asignatura
----------------------------------------------------------------------------
\* C16: the environment of the row of (d, g) is
\* ambientes[(d * num_grupos + g) mod len(ambientes)]; it is the same
\* whichever instructor teaches (d, g)
C16_AmbientePorDiaYGrupo ==
    FilasRetornadas =>
        \A k \in 1 .. Len(resultados) :
            LET d == DiaDe(resultados[k])
                g == GrupoDe(resultados[k])
            IN  /\ resultados[k].Ambiente =
                      ambientes[((d * num_grupos + g) % Len(ambientes)) + 1]
                /\ \A i \in 0 .. (num_instructores - 1) :
                      Fila(i, d, g).Ambiente = resultados[k].Ambiente

\* rows of 2 groups in 3 environments over 2 days, taught by instructor 1 where
\* instructor 0 could teach as well, and using all the environments
C16_Witness ==
    /\ FilasRetornadas
    /\ num_instructores = 2 /\ Len(ambientes) = 3
    /\ \E k \in 1 .. Len(resultados) :
          resultados[k].Instructor = 1 /\ GrupoDe(resultados[k]) = 0
    /\ {resultados[k].Ambiente : k \in 1 .. Len(resultados)} = {"A1", "A2", "A3"}

\* C17: the jornada of the row of (d, g) is chosen by (d + g) mod 3, with
\* 0 -> morning 08:00-13:00, 1 -> afternoon 14:00-18:00, 2 -> evening
\* 18:00-22:00, and the row's times are those of the jornada, not those of the
\* curriculum session
C17_JornadaPorDiaYGrupo ==
    FilasRetornadas =>
        \A k \in 1 .. Len(resultados) :
            LET r == resultados[k]
                turno == (DiaDe(r) + GrupoDe(r)) % 3
            IN  /\ turno = 0 =>
                      r.Jornada = "Manana" /\ r.HoraInicio = 800 /\ r.HoraFin = 1300
                /\ turno = 1 =>
                      r.Jornada = "Tarde" /\ r.HoraInicio = 1400 /\ r.HoraFin = 1800
                /\ turno = 2 =>
                      r.Jornada = "Noche" /\ r.HoraInicio = 1800 /\ r.HoraFin = 2200

\* rows in the three jornadas, one of them of session S3 (06:00-10:00), whose
\* times are those of no jornada
C17_Witness ==
    /\ FilasRetornadas
    /\ {resultados[k].Jornada : k \in 1 .. Len(resultados)}
          = {"Manana", "Tarde", "Noche"}
    /\ \E k \in 1 .. Len(resultados) : resultados[k].Asignatura = "S3"
----------------------------------------------------------------------------
\* (Fecha, Hora Inicio, Programa) of rows a and b are the same
ClaveIgual(a, b) ==
    a.Fecha = b.Fecha /\ a.HoraInicio = b.HoraInicio /\ a.Programa = b.Programa

\* (Fecha, Hora Inicio, Programa) of row a comes before that of row b
ClaveAnterior(a, b) ==
    \/ a.Fecha < b.Fecha
    \/ a.Fecha = b.Fecha /\ a.HoraInicio < b.HoraInicio
    \/ a.Fecha = b.Fecha /\ a.HoraInicio = b.HoraInicio /\ a.Programa < b.Programa

\* C18: the returned rows are in nondecreasing order of (date, start of the
\* jornada, program), rows with the same three keys keep the order of their
\* generation (day, then group), and they are a permutation of the generated
\* rows
C18_FilasOrdenadas ==
    FilasRetornadas =>
        /\ \A k1, k2 \in 1 .. Len(resultados) :
              k1 < k2 =>
                  /\ ClaveAnterior(resultados[k1], resultados[k2])
                        \/ ClaveIgual(resultados[k1], resultados[k2])
                  /\ ClaveIgual(resultados[k1], resultados[k2]) =>
                        \/ DiaDe(resultados[k1]) < DiaDe(resultados[k2])
                        \/ /\ DiaDe(resultados[k1]) = DiaDe(resultados[k2])
                           /\ GrupoDe(resultados[k1]) < GrupoDe(resultados[k2])
        /\ Len(resultados) = Cardinality(asignacion)
        /\ {resultados[k] : k \in 1 .. Len(resultados)}
              = {Fila(a[1], a[2], a[3]) : a \in asignacion}

\* 4 groups on one day: groups 0 and 3 share date, jornada and program, and
\* the sort moved the row of group 3 before that of group 1
C18_Witness ==
    /\ FilasRetornadas /\ num_grupos = 4 /\ Len(resultados) = 4
    /\ ClaveIgual(resultados[1], resultados[2])
    /\ GrupoDe(resultados[1]) = 0 /\ GrupoDe(resultados[2]) = 3
    /\ GrupoDe(resultados[3]) = 1

\* 4 groups on one day where the program decides: group 3 (program 1) comes
\* before group 0 (program 2) of the same date and jornada
C18_OrdenPorPrograma ==
    /\ FilasRetornadas /\ num_grupos = 4
    /\ GrupoDe(resultados[1]) = 3 /\ GrupoDe(resultados[2]) = 0
----------------------------------------------------------------------------
\* calcular_dias_no_laborables has returned
DiasCalculados == pc \notin {"inicio", "datos", "st_stop"}

\* generar_horario_optimo has computed dias_laborables
LaborablesContados == DiasCalculados /\ pc # "generar"

\* C19: calcular_dias_no_laborables returns exactly the day indices of
\* [0, num_dias) whose date is a Saturday, a Sunday or a holiday, so num_dias
\* minus its size is the number of working days
C19_DiasNoLaborablesExactos ==
    /\ DiasCalculados =>
          /\ \A d \in dias_no_laborables : 0 <= d /\ d < num_dias
          /\ \A d \in 0 .. (num_dias - 1) :
                d \in dias_no_laborables <=>
                    \/ (fecha_inicio + d) % 7 = 5
                    \/ (fecha_inicio + d) % 7 = 6
                    \/ (fecha_inicio + d) \in festivos
    /\ LaborablesContados =>
          dias_laborables =
              Cardinality({d \in 0 .. (num_dias - 1) :
                              /\ (fecha_inicio + d) % 7 \in 0 .. 4
                              /\ (fecha_inicio + d) \notin festivos})

\* a horizon from a Thursday with a weekend and a holiday Monday inside
C19_Witness ==
    /\ LaborablesContados
    /\ fecha_inicio = 3 /\ festivos = {7} /\ num_dias = 8
    /\ dias_no_laborables = {2, 3, 4}
    /\ dias_laborables = 5

\* a holiday before the start of the horizon, which is no index of the result
C19_FestivoFuera ==
    /\ DiasCalculados
    /\ fecha_inicio = 3 /\ festivos = {0} /\ num_dias >= 1
    /\ \A d \in dias_no_laborables : (fecha_inicio + d) % 7 >= 5

\* C20: with more groups than instructors no run ends with OPTIMAL or
\* FEASIBLE and no row is ever produced, whatever the limits and the equity
\* setting
C20_MasGruposQueInstructores ==
    num_grupos > num_instructores =>
        /\ status \notin {OPTIMAL, FEASIBLE}
        /\ status_name \notin {"OPTIMAL", "FEASIBLE"}
        /\ resultados = <<>>
        /\ pc # "materializar"

\* the solver has answered for 2 groups, 1 instructor and working days
C20_Witness ==
    /\ pc = "retorno" /\ llamadas_solver = 1
    /\ num_grupos = 2 /\ num_instructores = 1
    /\ dias_laborables >= 1
    /\ status = INFEASIBLE
============================================================================
